---- MODULE Spec2Model ----
\* usbmuxd client (usbmux.py) and TCP relay (tcprelay.py): a model of the
\* control connection, the multiplexer facade and the forwarding threads.
EXTENDS Integers, Sequences, FiniteSets, TLC

\* ---------------------------------------------------------------- bounds
MaxConns == 3      \* MuxConnection objects created in one run
MaxCalls == 4      \* calls made on the client in one run
MaxTag == 2        \* _exchange is not called once pkttag exceeds this
MaxDevs == 2       \* DeviceAttach is not delivered to a registry of this length
MaxDevId == 2      \* device ids the daemon uses: 1..MaxDevId
MaxStatus == 1     \* Result status codes the daemon uses: 0..MaxStatus
MaxBytes == 2      \* bytes each peer of a relayed connection sends
MaxFrames == 2     \* frames written to the stream of one protocol object

ConnIds == 1..MaxConns
DevIds == 1..MaxDevId
Ports == {8080}

\* ------------------------------------------------- protocol constants
TYPE_RESULT == 1
TYPE_CONNECT == 2
TYPE_LISTEN == 3
TYPE_DEVICE_ADD == 4
TYPE_DEVICE_REMOVE == 5
TYPE_PLIST == 8
BinaryVERSION == 0
PlistVERSION == 1

VERSION(proto) == IF proto = "PlistProtocol" THEN PlistVERSION ELSE BinaryVERSION

\* The request/response kinds as each protocol class names them: numbers in
\* BinaryProtocol, MessageType strings in PlistProtocol.
TypeOf(proto, kind) ==
    IF proto = "PlistProtocol"
    THEN CASE kind = "RESULT" -> "Result"
           [] kind = "CONNECT" -> "Connect"
           [] kind = "LISTEN" -> "Listen"
           [] kind = "DEVICE_ADD" -> "Attached"
           [] kind = "DEVICE_REMOVE" -> "Detached"
    ELSE CASE kind = "RESULT" -> TYPE_RESULT
           [] kind = "CONNECT" -> TYPE_CONNECT
           [] kind = "LISTEN" -> TYPE_LISTEN
           [] kind = "DEVICE_ADD" -> TYPE_DEVICE_ADD
           [] kind = "DEVICE_REMOVE" -> TYPE_DEVICE_REMOVE

\* ------------------------------------------------------------- frames
\* A frame on the daemon socket: the 16-byte header (length is implied by the
\* payload) and the payload. A binary payload carries Number or DeviceID; a
\* plist payload (resp = TYPE_PLIST) carries MessageType as well.
NoFrame == [version |-> -1, resp |-> 0, tag |-> 0, MessageType |-> "",
            Number |-> 0, DeviceID |-> 0, PortNumber |-> 0]

Frame(v, r, t, m, n, d) ==
    [version |-> v, resp |-> r, tag |-> t, MessageType |-> m,
     Number |-> n, DeviceID |-> d, PortNumber |-> 0]

ReplyTags == 1..MaxTag

\* What the daemon may put on the socket: the frames of a version-0 daemon
\* (binary payloads), those of a version-1 daemon (plist payloads), and one
\* frame of each version whose payload is of the other kind.
Frames ==
    {Frame(BinaryVERSION, TYPE_RESULT, t, "", n, 0) : t \in ReplyTags, n \in 0..MaxStatus}
    \cup {Frame(BinaryVERSION, r, 0, "", 0, d) :
        r \in {TYPE_DEVICE_ADD, TYPE_DEVICE_REMOVE}, d \in DevIds}
    \cup {Frame(BinaryVERSION, TYPE_CONNECT, 0, "", 0, 0)}
    \cup {Frame(PlistVERSION, TYPE_PLIST, t, "Result", n, 0) :
        t \in ReplyTags, n \in 0..MaxStatus}
    \cup {Frame(PlistVERSION, TYPE_PLIST, 0, m, 0, d) :
        m \in {"Attached", "Detached"}, d \in DevIds}
    \cup {Frame(PlistVERSION, TYPE_PLIST, 0, "Paired", 0, 0)}
    \cup {Frame(PlistVERSION, TYPE_RESULT, 1, "", 0, 0)}
    \cup {Frame(BinaryVERSION, TYPE_PLIST, 1, "Result", 0, 0)}

\* One use of the daemon socket: a frame arrives, or the socket breaks
\* while sending or while receiving; a socket this side has closed fails.
Inputs ==
    [io : {"ok"}, f : Frames] \cup [io : {"sendbroken", "recvbroken"}, f : {NoFrame}]
ClosedInput == [io |-> "closed", f |-> NoFrame]
\* The daemon socket cannot be connected to at all.
Refused == [io |-> "refused", f |-> NoFrame]
InputsOf(isopen) == IF isopen THEN Inputs ELSE {ClosedInput}
ReadInputsOf(isopen) == {i \in InputsOf(isopen) : i.io # "sendbroken"}
\* What select() reports to process(), with what is then read.
SelectOf(isopen) ==
    IF isopen
    THEN [sel : {"readable"}, inp : ReadInputsOf(TRUE)]
         \cup [sel : {"timeout", "exception"}, inp : {[io |-> "ok", f |-> NoFrame]}]
    ELSE {[sel |-> "closed", inp |-> ClosedInput]}

\* ------------------------------------------------------------ outcomes
\* The outcome of a call: the exception class and message ("" when it
\* returned), the value returned, the frame written and the frame read.
Ok(ret, sent, read) ==
    [exc |-> "", msg |-> "", ret |-> ret, sent |-> sent, read |-> read]
Raise(exc, msg, ret, sent, read) ==
    [exc |-> exc, msg |-> msg, ret |-> ret, sent |-> sent, read |-> read]

\* -------------------------------------------------------------- codecs
NoPacket == [resp |-> 0, tag |-> 0, data |-> NoFrame]

\* BinaryProtocol._pack / PlistProtocol._pack: the exception raised, "" if none.
pack(proto, req) ==
    IF proto = "PlistProtocol" THEN ""
    ELSE IF req = TYPE_CONNECT \/ req = TYPE_LISTEN THEN ""
    ELSE "ValueError"

\* BinaryProtocol._unpack / PlistProtocol._unpack: the exception raised, "" if none.
unpack(proto, resp) ==
    IF proto = "PlistProtocol" THEN ""
    ELSE IF resp \in {TYPE_RESULT, TYPE_DEVICE_ADD, TYPE_DEVICE_REMOVE} THEN ""
    ELSE "MuxError"

\* sendpacket testing self.connected only after the send.
Binary_sendpacket_late(proto, isconnected, req, mtype, tag, payload, io) ==
    LET data == [version |-> VERSION(proto), resp |-> req, tag |-> tag,
                 MessageType |-> mtype, Number |-> 0,
                 DeviceID |-> payload.DeviceID, PortNumber |-> payload.PortNumber]
    IN  IF io = "closed"
        THEN Raise("OSError", "Bad file descriptor", 0, NoFrame, NoFrame)
        ELSE IF io = "sendbroken"
        THEN Raise("MuxError", "socket connection broken", 0, NoFrame, NoFrame)
        ELSE IF isconnected
        THEN Raise("MuxError", "Mux is connected, cannot issue control packets",
                   0, data, NoFrame)
        ELSE Ok(0, data, NoFrame)

\* BinaryProtocol.sendpacket(req, tag, payload) with the socket's behaviour io.
Binary_sendpacket(proto, isconnected, req, mtype, tag, payload, io) ==
    LET data == [version |-> VERSION(proto), resp |-> req, tag |-> tag,
                 MessageType |-> mtype, Number |-> 0,
                 DeviceID |-> payload.DeviceID, PortNumber |-> payload.PortNumber]
    IN  IF pack(proto, req) # ""
        THEN Raise(pack(proto, req), "Invalid outgoing request type", 0, NoFrame, NoFrame)
        ELSE IF isconnected
        THEN Raise("MuxError", "Mux is connected, cannot issue control packets",
                   0, NoFrame, NoFrame)
        ELSE IF io = "closed"
        THEN Raise("OSError", "Bad file descriptor", 0, NoFrame, NoFrame)
        ELSE IF io = "sendbroken"
        THEN Raise("MuxError", "socket connection broken", 0, NoFrame, NoFrame)
        ELSE Ok(0, data, NoFrame)

\* proto.sendpacket(req, tag, payload): PlistProtocol wraps the request in a
\* plist and sends it as a TYPE_PLIST frame through BinaryProtocol.sendpacket.
sendpacket(proto, isconnected, req, tag, payload, io) ==
    IF proto = "PlistProtocol"
    THEN Binary_sendpacket(proto, isconnected, TYPE_PLIST, req, tag, payload, io)
    ELSE Binary_sendpacket(proto, isconnected, req, "", tag, payload, io)

\* getpacket without its comparison of the version.
Binary_getpacket_anyversion(proto, isconnected, inp) ==
    IF isconnected
    THEN Raise("MuxError", "Mux is connected, cannot issue control packets",
               NoPacket, NoFrame, NoFrame)
    ELSE IF inp.io = "closed"
    THEN Raise("OSError", "Bad file descriptor", NoPacket, NoFrame, NoFrame)
    ELSE IF inp.io # "ok"
    THEN Raise("MuxError", "socket connection broken", NoPacket, NoFrame, NoFrame)
    ELSE IF unpack(proto, inp.f.resp) # ""
    THEN Raise(unpack(proto, inp.f.resp), "Invalid incoming request type",
               NoPacket, NoFrame, inp.f)
    ELSE Ok([resp |-> inp.f.resp, tag |-> inp.f.tag, data |-> inp.f], NoFrame, inp.f)

\* BinaryProtocol.getpacket() reading input inp from the socket.
Binary_getpacket(proto, isconnected, inp) ==
    IF isconnected
    THEN Raise("MuxError", "Mux is connected, cannot issue control packets",
               NoPacket, NoFrame, NoFrame)
    ELSE IF inp.io = "closed"
    THEN Raise("OSError", "Bad file descriptor", NoPacket, NoFrame, NoFrame)
    ELSE IF inp.io # "ok"
    THEN Raise("MuxError", "socket connection broken", NoPacket, NoFrame, NoFrame)
    ELSE IF inp.f.version # VERSION(proto)
    THEN Raise("MuxVersionError", "Version mismatch", NoPacket, NoFrame, inp.f)
    ELSE IF unpack(proto, inp.f.resp) # ""
    THEN Raise(unpack(proto, inp.f.resp), "Invalid incoming request type",
               NoPacket, NoFrame, inp.f)
    ELSE Ok([resp |-> inp.f.resp, tag |-> inp.f.tag, data |-> inp.f], NoFrame, inp.f)

\* PlistProtocol.getpacket() after super().getpacket() returned or raised r.
Plist_getpacket(r) ==
    IF r.exc # "" THEN r
    ELSE IF r.ret.resp # TYPE_PLIST
    THEN Raise("MuxError", "Received non-plist type", NoPacket, NoFrame, r.read)
    ELSE Ok([resp |-> r.ret.data.MessageType, tag |-> r.ret.tag, data |-> r.ret.data],
            NoFrame, r.read)

\* proto.getpacket(): PlistProtocol checks the outer kind and returns the
\* MessageType of the plist as the kind.
getpacket(proto, isconnected, inp) ==
    IF proto = "PlistProtocol"
    THEN Plist_getpacket(Binary_getpacket(proto, isconnected, inp))
    ELSE Binary_getpacket(proto, isconnected, inp)

\* ------------------------------------------------------ MuxConnection
\* A _getreply that returns whatever packet it read.
getreply_of_any(proto, r) == r

\* MuxConnection._getreply() after getpacket() returned or raised r.
getreply_of(proto, r) ==
    IF r.exc # "" THEN r
    ELSE IF r.ret.resp = TypeOf(proto, "RESULT") THEN r
    ELSE Raise("MuxError", "Invalid packet type received", NoPacket, NoFrame, r.read)

\* MuxConnection._getreply()
getreply(proto, isconnected, inp) ==
    getreply_of(proto, getpacket(proto, isconnected, inp))

\* _exchange without its comparison of the reply's tag.
exchange_of_anytag(mytag, s, r) ==
    IF s.exc # "" THEN s
    ELSE IF r.exc # "" THEN Raise(r.exc, r.msg, 0, s.sent, r.read)
    ELSE Ok(r.ret.data.Number, s.sent, r.read)

\* MuxConnection._exchange after sendpacket returned or raised s; r is what
\* _getreply then returns or raises.
exchange_of(mytag, s, r) ==
    IF s.exc # "" THEN s
    ELSE IF r.exc # "" THEN Raise(r.exc, r.msg, 0, s.sent, r.read)
    ELSE IF r.ret.tag # mytag
    THEN Raise("MuxError", "Reply tag mismatch", 0, s.sent, r.read)
    ELSE Ok(r.ret.data.Number, s.sent, r.read)

\* MuxConnection._exchange(req, payload) with tag mytag already taken from
\* pkttag: the status returned, or the exception raised.
exchange(proto, isconnected, mytag, req, payload, inp) ==
    exchange_of(mytag, sendpacket(proto, isconnected, req, mytag, payload, inp.io),
                getreply(proto, isconnected, inp))

\* MuxConnection.listen() after _exchange returned or raised e.
listen_of(e) ==
    IF e.exc = "" /\ e.ret # 0
    THEN Raise("MuxError", "Listen failed", e.ret, e.sent, e.read)
    ELSE e

\* MuxConnection.listen(): _exchange(TYPE_LISTEN), failing on a non-zero status.
listen(proto, isconnected, mytag, inp) ==
    listen_of(exchange(proto, isconnected, mytag, TypeOf(proto, "LISTEN"),
                       [DeviceID |-> 0, PortNumber |-> 0], inp))

\* A connect() that passes the port on as it is.
port_swapped_none(port) == port

\* The port with its two bytes exchanged, as connect() computes it.
port_swapped(port) == ((port * 256) % 65536) + (port \div 256)

\* connect() without its test of the status.
connect_of_anystatus(e) == e

\* MuxConnection.connect() after _exchange returned or raised e, up to the
\* point it sets proto.connected.
connect_of(e) ==
    IF e.exc = "" /\ e.ret # 0
    THEN Raise("MuxError", "Connect failed", e.ret, e.sent, e.read)
    ELSE e

\* MuxConnection.connect(device, port) up to the point it sets proto.connected.
connect(proto, isconnected, mytag, device, port, inp) ==
    connect_of(exchange(proto, isconnected, mytag, TypeOf(proto, "CONNECT"),
                        [DeviceID |-> device.devid, PortNumber |-> port_swapped(port)],
                        inp))

\* The for loop of _processpacket on DeviceRemove: the list is indexed
\* afresh at every iteration while remove() shortens it.
RECURSIVE RemoveLoop(_, _, _)
RemoveLoop(devs, i, id) ==
    IF i > Len(devs) THEN devs
    ELSE IF devs[i].devid = id
    THEN RemoveLoop(SubSeq(devs, 1, i - 1) \o SubSeq(devs, i + 1, Len(devs)), i + 1, id)
    ELSE RemoveLoop(devs, i + 1, id)

MuxDevice(devid) == [devid |-> devid]

\* MuxConnection._processpacket() after getpacket() returned or raised r:
\* the registry afterwards in ret.
processpacket_of(proto, devs, r) ==
    IF r.exc # "" THEN Raise(r.exc, r.msg, devs, NoFrame, r.read)
    ELSE IF r.ret.resp = TypeOf(proto, "DEVICE_ADD")
    THEN Ok(Append(devs, MuxDevice(r.ret.data.DeviceID)), NoFrame, r.read)
    ELSE IF r.ret.resp = TypeOf(proto, "DEVICE_REMOVE")
    THEN Ok(RemoveLoop(devs, 1, r.ret.data.DeviceID), NoFrame, r.read)
    ELSE IF r.ret.resp = TypeOf(proto, "RESULT")
    THEN Raise("MuxError", "Unexpected result", devs, NoFrame, r.read)
    ELSE Raise("MuxError", "Invalid packet type received", devs, NoFrame, r.read)

\* MuxConnection._processpacket()
processpacket(proto, isconnected, devs, inp) ==
    processpacket_of(proto, devs, getpacket(proto, isconnected, inp))

\* MuxConnection.process(timeout): sel is what select() reports.
process(proto, isconnected, devs, sel, inp) ==
    IF isconnected
    THEN Raise("MuxError", "Socket is connected, cannot process listener events",
               devs, NoFrame, NoFrame)
    ELSE IF sel = "closed"
    THEN Raise("ValueError", "file descriptor cannot be a negative integer", devs,
               NoFrame, NoFrame)
    ELSE IF sel = "exception"
    THEN Raise("MuxError", "Exception in listener socket", devs, NoFrame, NoFrame)
    ELSE IF sel = "readable" THEN processpacket(proto, isconnected, devs, inp)
    ELSE Ok(devs, NoFrame, NoFrame)

\* --------------------------------------------------------------- state
VARIABLES
    proto,      \* proto[c]: the protocol class of connection c, "" before it exists
    pkttag,     \* pkttag[c]: MuxConnection.pkttag
    devices,    \* devices[c]: MuxConnection.devices, a list of MuxDevice
    connected,  \* connected[c]: MuxConnection.proto.connected
    sockopen,   \* sockopen[c]: MuxConnection.socket.sock is not closed
    tags,       \* tags[c]: the tags _exchange has taken on c, in order
    mux,        \* the USBMux facade
    last,       \* the last call: its target, inputs and outcome
    ncalls      \* the number of calls made so far

muxvars == <<proto, pkttag, devices, connected, sockopen, tags, mux, last, ncalls>>

NoMux == [pc |-> "new", listener |-> 0, version |-> -1, protoclass |-> "",
          exc |-> "", msg |-> ""]

NoCall == [op |-> "", conn |-> 0, was |-> FALSE, mytag |-> 0, exc |-> "", msg |-> "",
           ret |-> 0, sent |-> NoFrame, read |-> NoFrame]

Call(op, c, was, mytag, r) ==
    [op |-> op, conn |-> c, was |-> was, mytag |-> mytag, exc |-> r.exc,
     msg |-> r.msg, ret |-> r.ret, sent |-> r.sent, read |-> r.read]

MuxInit ==
    /\ proto = [c \in ConnIds |-> ""]
    /\ pkttag = [c \in ConnIds |-> 0]
    /\ devices = [c \in ConnIds |-> <<>>]
    /\ connected = [c \in ConnIds |-> FALSE]
    /\ sockopen = [c \in ConnIds |-> FALSE]
    /\ tags = [c \in ConnIds |-> <<>>]
    /\ mux = NoMux
    /\ last = NoCall
    /\ ncalls = 0


\* ------------------------------------------------- one relayed connection
\* handle_connection after device_sock was obtained: the two sockets, the two
\* forward threads, and the peers at the far ends of the sockets.
VARIABLES
    hpc,        \* handle_connection: "start1", "start2" (the Thread(...).start() lines), "end"
    fpc,        \* fpc[d]: where forward(src, dst) of direction d stands
    data,       \* data[d]: the bytes forward holds between recv and sendall
    sclosed,    \* sclosed[s]: close() was called on socket s
    sentby,     \* sentby[s]: all bytes the peer of socket s has sent
    rx,         \* rx[s]: bytes received on socket s and not yet read
    eof,        \* eof[s]: the peer of socket s has closed its end
    err,        \* err[s]: socket s has failed
    written     \* written[s]: all bytes written to socket s

relayvars == <<hpc, fpc, data, sclosed, sentby, rx, eof, err, written>>

Socks == {"client_sock", "device_sock"}
Dirs == {"c2d", "d2c"}
\* forward(client_sock, device_sock) and forward(device_sock, client_sock)
Src(d) == IF d = "c2d" THEN "client_sock" ELSE "device_sock"
Dst(d) == IF d = "c2d" THEN "device_sock" ELSE "client_sock"
\* The i-th byte the peer of socket s sends: neighbours differ, and so do the
\* two peers.
ByteOf(s, i) == (IF s = "client_sock" THEN 0 ELSE 2) + ((i + 1) % 2)
\* the size given to recv
RecvSize == 4096

RelayInit ==
    /\ hpc = "start1"
    /\ fpc = [d \in Dirs |-> "idle"]
    /\ data = [d \in Dirs |-> <<>>]
    /\ sclosed = [s \in Socks |-> FALSE]
    /\ sentby = [s \in Socks |-> <<>>]
    /\ rx = [s \in Socks |-> <<>>]
    /\ eof = [s \in Socks |-> FALSE]
    /\ err = [s \in Socks |-> FALSE]
    /\ written = [s \in Socks |-> <<>>]

\* ------------------------------------------------------- the relay program
\* main() and the TCPRelay it constructs.
VARIABLES
    first,        \* args.first, the -t/--first flag
    self_device,  \* TCPRelay.device, the device main() chose and passed on
    attached      \* the ids of the devices attached at the daemon, oldest first

\* serve_forever of each TCPRelay and the connections it has accepted, each
\* with its handle_connection thread, its two sockets and its two forward
\* threads.
VARIABLES
    server,       \* server[r]: the accept loop of relay r, "accepting" or "stopped"
    handler,      \* handler[k]: where handle_connection of connection k stands
    relay_of,     \* relay_of[k]: the relay that accepted connection k, "" before
    sockclosed,   \* sockclosed[<<k, s>>]: close() was called on socket s of connection k
    task,         \* task[<<k, d>>]: where forward of direction d of connection k stands
    relayed       \* relayed[<<k, d>>]: the bytes forward has written in direction d

\* One protocol object writing frames to a byte stream and reading frames
\* from it.
VARIABLES
    cproto,       \* the protocol class of the object, "" when there is none
    wire,         \* the frames in the stream, written and not yet read, oldest first
    nframes,      \* the number of frames written to the stream so far
    rpos,         \* the number of bytes the reader has taken from the stream
    sizes,        \* the sizes in bytes of the frames the reader has been through
    got           \* the last read: the entry of wire read and the outcome

mainvars == <<first, self_device, attached>>
servevars == <<server, handler, relay_of, sockclosed, task, relayed>>
codecvars == <<cproto, wire, nframes, rpos, sizes, got>>
srvvars == <<mainvars, servevars, codecvars>>

NoDevice == [devid |-> 0]

\* Two connections accepted in one run of the program, and the relays (port
\* pairs) that may have accepted them.
Accepts == {"A", "B"}
Relays == {"relay1", "relay2"}

\* Every relay is accepting and has accepted nothing yet.
ServeInit ==
    /\ server = [r \in Relays |-> "accepting"]
    /\ handler = [k \in Accepts |-> "none"]
    /\ relay_of = [k \in Accepts |-> ""]
    /\ sockclosed = [x \in Accepts \X Socks |-> FALSE]
    /\ task = [x \in Accepts \X Dirs |-> "idle"]
    /\ relayed = [x \in Accepts \X Dirs |-> <<>>]

\* The request a frame of the stream was written for, with the port connect()
\* was given; none for a frame of the daemon.
NoRequest == [by |-> "", req |-> "", tag |-> 0, DeviceID |-> 0, PortNumber |-> 0, port |-> 0]
NoEntry == [f |-> NoFrame, length |-> 0, size |-> 0, orig |-> NoRequest]
NoGot == [op |-> "", entry |-> NoEntry, exc |-> "", ret |-> NoPacket]

\* No protocol object under test.
CodecIdle ==
    /\ cproto = ""
    /\ wire = <<>>
    /\ nframes = 0
    /\ rpos = 0
    /\ sizes = <<>>
    /\ got = NoGot

\* No device chosen by main(): the client library is used on its own.
MainIdle ==
    /\ first = FALSE
    /\ self_device = NoDevice
    /\ attached = <<>>

SrvInit == MainIdle /\ ServeInit /\ CodecIdle

vars == <<muxvars, relayvars, srvvars>>

Init == MuxInit /\ RelayInit /\ SrvInit

Created == {c \in ConnIds : proto[c] # ""}
Fresh == {c \in ConnIds : proto[c] = "" /\ \A b \in ConnIds : b < c => proto[b] # ""}

\* The value MuxConnection.__init__ gives pkttag.
FirstTag == 1

\* _exchange without its increment of pkttag.
NextTag_stuck(t) == t

\* pkttag after _exchange has taken tag t.
NextTag(t) == t + 1

\* MuxConnection.__init__(socketpath, protoclass) creating connection c,
\* followed by the calls on c that leave pkttag = tag, the tags in taken
\* used and proto.connected = isconnected.
MuxConnection_init(c, protoclass, tag, taken, isconnected) ==
    /\ proto' = [proto EXCEPT ![c] = protoclass]
    /\ pkttag' = [pkttag EXCEPT ![c] = tag]
    /\ devices' = [devices EXCEPT ![c] = <<>>]
    /\ connected' = [connected EXCEPT ![c] = isconnected]
    /\ sockopen' = [sockopen EXCEPT ![c] = TRUE]
    /\ tags' = [tags EXCEPT ![c] = taken]

\* The first two statements of _exchange: take the tag, advance pkttag.
TakeTag(c) ==
    /\ pkttag' = [pkttag EXCEPT ![c] = NextTag(@)]
    /\ tags' = [tags EXCEPT ![c] = Append(@, pkttag[c])]

\* One more call is made.
Called ==
    /\ ncalls < MaxCalls
    /\ ncalls' = ncalls + 1
    /\ UNCHANGED <<relayvars, srvvars>>

\* A caller creates a connection.
NewConnection ==
    \E c \in Fresh, protoclass \in {"BinaryProtocol", "PlistProtocol"} :
        /\ Called
        /\ MuxConnection_init(c, protoclass, FirstTag, <<>>, FALSE)
        /\ last' = Call("MuxConnection", c, FALSE, 0, Ok(0, NoFrame, NoFrame))
        /\ UNCHANGED mux

\* listen() on connection c returned or raised r.
ListenOn(c, r) ==
    /\ Called
    /\ pkttag[c] <= MaxTag
    /\ TakeTag(c)
    /\ last' = Call("listen", c, connected[c], pkttag[c], r)
    /\ UNCHANGED <<proto, devices, connected, sockopen, mux>>

\* A caller calls listen() on connection c.
Listen ==
    \E c \in Created : \E inp \in InputsOf(sockopen[c]) :
        ListenOn(c, listen(proto[c], connected[c], pkttag[c], inp))

\* connect() on connection c returned or raised r.
ConnectOn(c, r) ==
    /\ Called
    /\ pkttag[c] <= MaxTag
    /\ TakeTag(c)
    /\ connected' = [connected EXCEPT ![c] = @ \/ r.exc = ""]
    /\ last' = Call("connect", c, connected[c], pkttag[c], r)
    /\ UNCHANGED <<proto, devices, sockopen, mux>>

\* A caller calls connect(device, port) on connection c.
Connect ==
    \E c \in Created, d \in DevIds, port \in Ports : \E inp \in InputsOf(sockopen[c]) :
        ConnectOn(c, connect(proto[c], connected[c], pkttag[c], MuxDevice(d), port, inp))

\* process() on connection c, with select() reporting sel, returned or raised r.
ProcessOn(op, c, sel, r) ==
    /\ Len(r.ret) <= MaxDevs
    /\ devices' = [devices EXCEPT ![c] = r.ret]
    /\ sockopen' = [sockopen EXCEPT ![c] = @ /\ (connected[c] \/ sel # "exception")]
    /\ last' = Call(op, c, connected[c], 0, [r EXCEPT !.ret = 0])
    /\ UNCHANGED <<proto, pkttag, connected, tags, mux>>

\* A caller calls process(timeout) on connection c.
Process ==
    \E c \in Created : \E s \in SelectOf(sockopen[c]) :
        /\ Called
        /\ ProcessOn("process", c, s.sel,
                     process(proto[c], connected[c], devices[c], s.sel, s.inp))

\* ------------------------------------------------------------- USBMux
Failed(exc, msg) == [NoMux EXCEPT !.pc = "failed", !.exc = exc, !.msg = msg]

\* The socket of a new MuxConnection cannot be connected: the call op raises.
RefusedIn(op) ==
    /\ last' = Call(op, 0, FALSE, 0, Raise("OSError", "connect", 0, NoFrame, NoFrame))
    /\ UNCHANGED <<proto, pkttag, devices, connected, sockopen, tags>>

\* A USBMux.__init__ whose except clause catches every exception.
USBMux_init_binary_on_anyerror(c, r) ==
    /\ MuxConnection_init(c, "BinaryProtocol", NextTag(FirstTag), <<FirstTag>>, FALSE)
    /\ last' = Call("USBMux", c, FALSE, FirstTag, r)
    /\ mux' = IF r.exc = ""
              THEN [NoMux EXCEPT !.pc = "ready", !.listener = c,
                                 !.version = BinaryVERSION,
                                 !.protoclass = "BinaryProtocol"]
              ELSE [NoMux EXCEPT !.pc = "fallback", !.listener = c]

\* USBMux.__init__ after listen() on the new BinaryProtocol connection c
\* returned or raised r.
USBMux_init_binary_on(c, r) ==
    /\ MuxConnection_init(c, "BinaryProtocol", NextTag(FirstTag), <<FirstTag>>, FALSE)
    /\ last' = Call("USBMux", c, FALSE, FirstTag, r)
    /\ mux' = IF r.exc = ""
              THEN [NoMux EXCEPT !.pc = "ready", !.listener = c,
                                 !.version = BinaryVERSION,
                                 !.protoclass = "BinaryProtocol"]
              ELSE IF r.exc = "MuxVersionError"
              THEN [NoMux EXCEPT !.pc = "fallback", !.listener = c]
              ELSE [Failed(r.exc, r.msg) EXCEPT !.listener = c]

\* USBMux.__init__ up to the end of the try block: a BinaryProtocol
\* connection is opened and listen() is called on it.
USBMux_init_binary ==
    /\ mux.pc = "new"
    /\ UNCHANGED <<ncalls, relayvars, srvvars>>
    /\ \E c \in Fresh, inp \in Inputs \cup {Refused} :
        IF inp = Refused
        THEN RefusedIn("USBMux") /\ mux' = Failed("OSError", "connect")
        ELSE USBMux_init_binary_on(c, listen("BinaryProtocol", FALSE, FirstTag, inp))

\* USBMux.__init__ after listen() on the new PlistProtocol connection c
\* returned or raised r.
USBMux_init_plist_on(c, r) ==
    /\ MuxConnection_init(c, "PlistProtocol", NextTag(FirstTag), <<FirstTag>>, FALSE)
    /\ last' = Call("USBMux", c, FALSE, FirstTag, r)
    /\ mux' = IF r.exc = ""
              THEN [NoMux EXCEPT !.pc = "ready", !.listener = c,
                                 !.version = PlistVERSION,
                                 !.protoclass = "PlistProtocol"]
              ELSE [Failed(r.exc, r.msg) EXCEPT !.listener = c]

\* USBMux.__init__, the except MuxVersionError block: a PlistProtocol
\* connection replaces the listener and listen() is called on it.
USBMux_init_plist ==
    /\ mux.pc = "fallback"
    /\ UNCHANGED <<ncalls, relayvars, srvvars>>
    /\ \E c \in Fresh, inp \in Inputs \cup {Refused} :
        IF inp = Refused
        THEN /\ RefusedIn("USBMux")
             /\ mux' = [Failed("OSError", "connect") EXCEPT !.listener = mux.listener]
        ELSE USBMux_init_plist_on(c, listen("PlistProtocol", FALSE, FirstTag, inp))

\* USBMux.process(timeout): process() on the listener.
USBMux_process ==
    /\ mux.pc = "ready"
    /\ UNCHANGED <<ncalls, relayvars, srvvars>>
    /\ \E s \in SelectOf(sockopen[mux.listener]) :
        ProcessOn("USBMux.process", mux.listener, s.sel,
                  process(proto[mux.listener], connected[mux.listener],
                          devices[mux.listener], s.sel, s.inp))

\* A USBMux.connect that calls connect() on the listener.
USBMux_connect_on_listener(c, r) ==
    /\ TakeTag(mux.listener)
    /\ connected' = [connected EXCEPT ![mux.listener] = r.exc = ""]
    /\ last' = Call("USBMux.connect", mux.listener, FALSE, FirstTag, r)
    /\ UNCHANGED <<proto, devices, sockopen>>

\* USBMux.connect after connect() on the new connection c returned or raised r.
USBMux_connect_on(c, r) ==
    /\ MuxConnection_init(c, mux.protoclass, NextTag(FirstTag), <<FirstTag>>, r.exc = "")
    /\ last' = Call("USBMux.connect", c, FALSE, FirstTag, r)

\* USBMux.connect(device, port): connect() on a new connection of the
\* negotiated protocol class.
USBMux_connect ==
    /\ mux.pc = "ready"
    /\ UNCHANGED <<mux, ncalls, relayvars, srvvars>>
    /\ \E c \in Fresh, d \in DevIds, port \in Ports, inp \in Inputs \cup {Refused} :
        IF inp = Refused
        THEN RefusedIn("USBMux.connect")
        ELSE USBMux_connect_on(c, connect(mux.protoclass, FALSE, FirstTag,
                                          MuxDevice(d), port, inp))

MuxNext == USBMux_init_binary \/ USBMux_init_plist \/ USBMux_process \/ USBMux_connect

MuxSpec == Init /\ [][MuxNext]_vars

Next == NewConnection \/ Listen \/ Connect \/ Process

Spec == Init /\ [][Next]_vars

\* ---------------------------------------------------------- TCPRelay
\* The first n elements of sequence q.
Take(q, n) == SubSeq(q, 1, n)
Drop(q, n) == SubSeq(q, n + 1, Len(q))
Min(a, b) == IF a < b THEN a ELSE b

\* sendall writing the bytes it is given twice.
sendall_twice(buf, bytes) == buf \o bytes \o bytes

\* What dst has been written once sendall(data) returned.
sendall(buf, bytes) == buf \o bytes

\* A close() that leaves the device socket open.
close_client_only(sc, s) == IF s = "client_sock" THEN [sc EXCEPT ![s] = TRUE] ELSE sc

\* The closed flags once close() was called on socket s.
close(sc, s) == [sc EXCEPT ![s] = TRUE]

\* handle_connection starts the thread forward(client_sock, device_sock).
StartClientToDevice ==
    /\ hpc = "start1"
    /\ hpc' = "start2"
    /\ fpc' = [fpc EXCEPT !["c2d"] = "recv"]
    /\ UNCHANGED <<data, sclosed, sentby, rx, eof, err, written, muxvars, srvvars>>

\* handle_connection starts the thread forward(device_sock, client_sock).
StartDeviceToClient ==
    /\ hpc = "start2"
    /\ hpc' = "end"
    /\ fpc' = [fpc EXCEPT !["d2c"] = "recv"]
    /\ UNCHANGED <<data, sclosed, sentby, rx, eof, err, written, muxvars, srvvars>>

\* forward: data = src.recv(4096). A closed or failed socket raises, which
\* leads to the finally block, as does the empty read at end of stream; with
\* nothing to read and the peer still there the call blocks.
forward_recv(d) ==
    /\ fpc[d] = "recv"
    /\ IF sclosed[Src(d)] \/ err[Src(d)]
       THEN /\ fpc' = [fpc EXCEPT ![d] = "close_src"]
            /\ UNCHANGED <<data, rx>>
       ELSE IF rx[Src(d)] # <<>>
       THEN \E n \in 1..Min(Len(rx[Src(d)]), RecvSize) :
            /\ data' = [data EXCEPT ![d] = Take(rx[Src(d)], n)]
            /\ rx' = [rx EXCEPT ![Src(d)] = Drop(@, n)]
            /\ fpc' = [fpc EXCEPT ![d] = "send"]
       ELSE /\ eof[Src(d)]
            /\ fpc' = [fpc EXCEPT ![d] = "close_src"]
            /\ UNCHANGED <<data, rx>>
    /\ UNCHANGED <<hpc, sclosed, sentby, eof, err, written, muxvars, srvvars>>

\* forward: dst.sendall(data). A closed or failed socket raises; the socket
\* may also fail after a part of data was written.
forward_send(d) ==
    /\ fpc[d] = "send"
    /\ data' = [data EXCEPT ![d] = <<>>]
    /\ \/ /\ sclosed[Dst(d)] \/ err[Dst(d)]
          /\ fpc' = [fpc EXCEPT ![d] = "close_src"]
          /\ UNCHANGED <<written, err>>
       \/ /\ ~sclosed[Dst(d)] /\ ~err[Dst(d)]
          /\ written' = [written EXCEPT ![Dst(d)] = sendall(@, data[d])]
          /\ fpc' = [fpc EXCEPT ![d] = "recv"]
          /\ UNCHANGED err
       \/ /\ ~sclosed[Dst(d)] /\ ~err[Dst(d)]
          /\ \E n \in 0..(Len(data[d]) - 1) :
                written' = [written EXCEPT ![Dst(d)] = sendall(@, Take(data[d], n))]
          /\ err' = [err EXCEPT ![Dst(d)] = TRUE]
          /\ fpc' = [fpc EXCEPT ![d] = "close_src"]
    /\ UNCHANGED <<hpc, sclosed, sentby, rx, eof, muxvars, srvvars>>

\* forward, finally: src.close()
forward_close_src(d) ==
    /\ fpc[d] = "close_src"
    /\ sclosed' = close(sclosed, Src(d))
    /\ fpc' = [fpc EXCEPT ![d] = "close_dst"]
    /\ UNCHANGED <<hpc, data, sentby, rx, eof, err, written, muxvars, srvvars>>

\* forward, finally: dst.close(); the thread ends.
forward_close_dst(d) ==
    /\ fpc[d] = "close_dst"
    /\ sclosed' = close(sclosed, Dst(d))
    /\ fpc' = [fpc EXCEPT ![d] = "done"]
    /\ UNCHANGED <<hpc, data, sentby, rx, eof, err, written, muxvars, srvvars>>

\* One step of the thread forward of direction d.
forward(d) ==
    forward_recv(d) \/ forward_send(d) \/ forward_close_src(d) \/ forward_close_dst(d)

\* The peer of socket s sends its next byte.
PeerSend(s) ==
    /\ Len(sentby[s]) < MaxBytes
    /\ ~eof[s] /\ ~err[s]
    /\ sentby' = [sentby EXCEPT ![s] = Append(@, ByteOf(s, Len(@) + 1))]
    /\ rx' = [rx EXCEPT ![s] = IF sclosed[s] THEN @ ELSE Append(@, ByteOf(s, Len(sentby[s]) + 1))]
    /\ UNCHANGED <<hpc, fpc, data, sclosed, eof, err, written, muxvars, srvvars>>

\* The peer of socket s closes its end.
PeerClose(s) ==
    /\ ~eof[s] /\ ~err[s]
    /\ eof' = [eof EXCEPT ![s] = TRUE]
    /\ UNCHANGED <<hpc, fpc, data, sclosed, sentby, rx, err, written, muxvars, srvvars>>

\* Socket s fails.
PeerReset(s) ==
    /\ ~err[s]
    /\ err' = [err EXCEPT ![s] = TRUE]
    /\ UNCHANGED <<hpc, fpc, data, sclosed, sentby, rx, eof, written, muxvars, srvvars>>

ForwardClientToDevice == forward("c2d")
ForwardDeviceToClient == forward("d2c")
Peers == \E s \in Socks : PeerSend(s) \/ PeerClose(s) \/ PeerReset(s)

RelayNext ==
    \/ StartClientToDevice
    \/ StartDeviceToClient
    \/ ForwardClientToDevice
    \/ ForwardDeviceToClient
    \/ Peers

\* Started threads run: the handler and each forward thread take their steps.
RelaySpec ==
    /\ Init
    /\ [][RelayNext]_vars
    /\ WF_vars(StartClientToDevice \/ StartDeviceToClient)
    /\ WF_vars(ForwardClientToDevice)
    /\ WF_vars(ForwardDeviceToClient)


\* ------------------------------------------------- handle_connection
\* The registries main() can hold the attached devices in: ids do not repeat.
AttachedLists ==
    {<<d>> : d \in DevIds}
    \cup {q \in {<<d, e>> : d \in DevIds, e \in DevIds} : q[1] # q[2]}

\* main(): mux.devices[0] if args.first else mux.devices[-1]
main_device(flag, devs) == IF flag THEN devs[1] ELSE devs[Len(devs)]

\* serve_forever has accepted client_sock and started handle_connection on
\* it. main() made one process() call before it chose the device, so its
\* registry holds the device the daemon reports first.
HandlerInit ==
    /\ MuxInit
    /\ hpc = "accepted"
    /\ fpc = [d \in Dirs |-> "idle"]
    /\ data = [d \in Dirs |-> <<>>]
    /\ sclosed = [s \in Socks |-> FALSE]
    /\ sentby = [s \in Socks |-> <<>>]
    /\ rx = [s \in Socks |-> <<>>]
    /\ eof = [s \in Socks |-> FALSE]
    /\ err = [s \in Socks |-> FALSE]
    /\ written = [s \in Socks |-> <<>>]
    /\ first \in BOOLEAN
    /\ attached \in AttachedLists
    /\ self_device = main_device(first, <<MuxDevice(attached[1])>>)
    /\ ServeInit
    /\ CodecIdle

\* The exception classes of the model, all of them subclasses of Exception.
ExceptionClasses == {"MuxError", "MuxVersionError", "OSError", "ValueError", "IndexError"}

\* An except clause that names MuxError.
Caught_MuxError(exc) == exc \in {"MuxError", "MuxVersionError"}

\* except Exception: the classes the handler's except clause catches.
Caught(exc) == exc \in ExceptionClasses

\* Where handle_connection stands after a statement of its try block
\* returned (exc = "") or raised exc.
AfterTry(exc, nextpc) ==
    IF exc = "" THEN nextpc ELSE IF Caught(exc) THEN "except" ELSE "raised"

\* mux = USBMux(), up to the end of the try block of USBMux.__init__.
Handle_USBMux_binary ==
    /\ hpc = "accepted"
    /\ mux.pc = "new"
    /\ \E c \in Fresh, inp \in Inputs \cup {Refused} :
        IF inp = Refused
        THEN RefusedIn("USBMux") /\ mux' = Failed("OSError", "connect")
        ELSE USBMux_init_binary_on(c, listen("BinaryProtocol", FALSE, FirstTag, inp))
    /\ hpc' = IF mux'.pc = "fallback" THEN "accepted" ELSE AfterTry(mux'.exc, "process")
    /\ UNCHANGED <<ncalls, fpc, data, sclosed, sentby, rx, eof, err, written, srvvars>>

\* mux = USBMux(), the except MuxVersionError block of USBMux.__init__.
Handle_USBMux_plist ==
    /\ hpc = "accepted"
    /\ mux.pc = "fallback"
    /\ \E c \in Fresh, inp \in Inputs \cup {Refused} :
        IF inp = Refused
        THEN /\ RefusedIn("USBMux")
             /\ mux' = [Failed("OSError", "connect") EXCEPT !.listener = mux.listener]
        ELSE USBMux_init_plist_on(c, listen("PlistProtocol", FALSE, FirstTag, inp))
    /\ hpc' = AfterTry(mux'.exc, "process")
    /\ UNCHANGED <<ncalls, fpc, data, sclosed, sentby, rx, eof, err, written, srvvars>>

\* if not mux.devices: mux.process(1.0)
Handle_process ==
    /\ hpc = "process"
    /\ IF devices[mux.listener] = <<>>
       THEN /\ \E s \in SelectOf(sockopen[mux.listener]) :
                ProcessOn("USBMux.process", mux.listener, s.sel,
                          process(proto[mux.listener], connected[mux.listener],
                                  devices[mux.listener], s.sel, s.inp))
            /\ hpc' = AfterTry(last'.exc, "device")
       ELSE /\ hpc' = "device"
            /\ UNCHANGED <<proto, pkttag, devices, connected, sockopen, tags, mux, last>>
    /\ UNCHANGED <<ncalls, fpc, data, sclosed, sentby, rx, eof, err, written, srvvars>>

\* device = mux.devices[0], an IndexError on an empty registry.
Handle_device ==
    /\ hpc = "device"
    /\ hpc' = AfterTry(IF devices[mux.listener] = <<>> THEN "IndexError" ELSE "", "connect")
    /\ UNCHANGED <<fpc, data, sclosed, sentby, rx, eof, err, written, muxvars, srvvars>>

\* device_sock = mux.connect(device, self.remote_port)
Handle_connect ==
    /\ hpc = "connect"
    /\ \E c \in Fresh, port \in Ports, inp \in Inputs \cup {Refused} :
        IF inp = Refused
        THEN RefusedIn("USBMux.connect")
        ELSE USBMux_connect_on(c, connect(mux.protoclass, FALSE, FirstTag,
                                          devices[mux.listener][1], port, inp))
    /\ hpc' = AfterTry(last'.exc, "start1")
    /\ UNCHANGED <<mux, ncalls, fpc, data, sclosed, sentby, rx, eof, err, written, srvvars>>

\* except Exception: client_sock.close(); return
Handle_except ==
    /\ hpc = "except"
    /\ sclosed' = close(sclosed, "client_sock")
    /\ hpc' = "returned"
    /\ UNCHANGED <<fpc, data, sentby, rx, eof, err, written, muxvars, srvvars>>

\* No statement of handle_connection closes the socket of a MuxConnection
\* (MuxConnection.close is never called): once handle_connection has returned
\* and mux is out of scope, the interpreter may reclaim a connection that was
\* not turned into device_sock and close its socket, at a time of its own.
Collect ==
    /\ hpc \in {"returned", "end"}
    /\ \E c \in Created : sockopen[c] /\ ~connected[c]
    /\ sockopen' = [c \in ConnIds |-> sockopen[c] /\ connected[c]]
    /\ UNCHANGED <<proto, pkttag, devices, connected, tags, mux, last, ncalls,
                   relayvars, srvvars>>

Handle_setup ==
    \/ Handle_USBMux_binary
    \/ Handle_USBMux_plist
    \/ Handle_process
    \/ Handle_device
    \/ Handle_connect
    \/ Handle_except

\* The far ends of the two sockets: the client sends, and either end may
\* close or fail. (Traffic in both directions is the subject of RelaySpec.)
HandlerPeers ==
    \/ PeerSend("client_sock")
    \/ \E s \in Socks : PeerClose(s) \/ PeerReset(s)

HandlerNext ==
    \/ Handle_setup
    \/ StartClientToDevice
    \/ StartDeviceToClient
    \/ ForwardClientToDevice
    \/ ForwardDeviceToClient
    \/ HandlerPeers
    \/ Collect

\* One accepted connection, from handle_connection's first statement to the
\* end of its forward threads.
HandlerSpec == HandlerInit /\ [][HandlerNext]_vars


\* ------------------------------------------------------- serve_forever
\* An except clause that closes client_sock of every accepted connection.
handler_except_all(sc, k) == [x \in DOMAIN sc |-> sc[x] \/ x[2] = "client_sock"]

\* handle_connection of connection k, the except block: client_sock.close()
handler_except(sc, k) == close(sc, <<k, "client_sock">>)

\* serve_forever of relay r: accept() returns client_sock of connection k and
\* the thread handle_connection(client_sock) is started.
Serve_accept(r, k) ==
    /\ server[r] = "accepting"
    /\ handler[k] = "none"
    /\ handler' = [handler EXCEPT ![k] = "try"]
    /\ relay_of' = [relay_of EXCEPT ![k] = r]
    /\ UNCHANGED <<server, sockclosed, task, relayed>>

\* handle_connection of connection k, the try block: it completes and
\* device_sock is the new stream, or one of its statements raises exc.
Serve_try(k) ==
    /\ handler[k] = "try"
    /\ \E exc \in ExceptionClasses \cup {""} :
        handler' = [handler EXCEPT ![k] = AfterTry(exc, "start1")]
    /\ UNCHANGED <<server, relay_of, sockclosed, task, relayed>>

\* handle_connection of connection k, the except block.
Serve_except(k) ==
    /\ handler[k] = "except"
    /\ sockclosed' = handler_except(sockclosed, k)
    /\ handler' = [handler EXCEPT ![k] = "returned"]
    /\ UNCHANGED <<server, relay_of, task, relayed>>

\* handle_connection of connection k starts its two forward threads.
Serve_start(k) ==
    /\ handler[k] \in {"start1", "start2"}
    /\ handler' = [handler EXCEPT ![k] = IF @ = "start1" THEN "start2" ELSE "end"]
    /\ task' = [task EXCEPT ![<<k, IF handler[k] = "start1" THEN "c2d" ELSE "d2c">>] = "recv"]
    /\ UNCHANGED <<server, relay_of, sockclosed, relayed>>

\* forward of direction d of connection k: recv returns the next byte of
\* the peer and sendall writes it.
Serve_forward_move(k, d) ==
    /\ task[<<k, d>>] = "recv"
    /\ ~sockclosed[<<k, Src(d)>>] /\ ~sockclosed[<<k, Dst(d)>>]
    /\ Len(relayed[<<k, d>>]) < MaxBytes
    /\ relayed' = [relayed EXCEPT ![<<k, d>>] =
                      sendall(@, <<ByteOf(Src(d), Len(@) + 1)>>)]
    /\ UNCHANGED <<server, handler, relay_of, sockclosed, task>>

\* forward of direction d of connection k leaves its loop: recv returned
\* nothing, or recv or sendall raised; then src.close(), then dst.close().
Serve_forward_end(k, d) ==
    /\ task[<<k, d>>] \in {"recv", "close_src", "close_dst"}
    /\ task' = [task EXCEPT ![<<k, d>>] =
                   CASE @ = "recv" -> "close_src"
                     [] @ = "close_src" -> "close_dst"
                     [] @ = "close_dst" -> "done"]
    /\ sockclosed' =
           CASE task[<<k, d>>] = "recv" -> sockclosed
             [] task[<<k, d>>] = "close_src" -> close(sockclosed, <<k, Src(d)>>)
             [] task[<<k, d>>] = "close_dst" -> close(sockclosed, <<k, Dst(d)>>)
    /\ UNCHANGED <<server, handler, relay_of, relayed>>

Serve_accepts ==
    /\ \E r \in Relays, k \in Accepts : Serve_accept(r, k)
    /\ UNCHANGED <<muxvars, relayvars, mainvars, codecvars>>
Serve_handlers ==
    /\ \E k \in Accepts : Serve_try(k) \/ Serve_except(k) \/ Serve_start(k)
    /\ UNCHANGED <<muxvars, relayvars, mainvars, codecvars>>
Serve_forwards ==
    /\ \E k \in Accepts, d \in Dirs : Serve_forward_move(k, d) \/ Serve_forward_end(k, d)
    /\ UNCHANGED <<muxvars, relayvars, mainvars, codecvars>>

ServeNext == Serve_accepts \/ Serve_handlers \/ Serve_forwards

\* The relays of one run of the program, their accept loops and the threads
\* of the connections they accept.
ServeSpec == Init /\ [][ServeNext]_vars


\* ---------------------------------------------------- frames as bytes
\* The 16 bytes struct.pack("IIII", length, version, req, tag) yields.
HeaderSize == 16
\* struct.pack("IH", ...) + b"\x00\x00"
SIZE_CONNECT == 8
\* the empty payload of TYPE_LISTEN
SIZE_LISTEN == 0
\* struct "I"
SIZE_RESULT == 4
\* struct "IH256sHI"
SIZE_DEVICE_ADD == 268
\* struct "I"
SIZE_DEVICE_REMOVE == 4
\* The length plistlib.dumps gives the payload of a message of type m: that
\* of the dictionary sendpacket builds for a request, and that of a message
\* of the daemon with the keys this program reads.
PlistSize(m) ==
    CASE m = "Listen" -> 371
      [] m = "Connect" -> 464
      [] m = "Result" -> 278
      [] m = "Attached" -> 504
      [] m = "Detached" -> 282
      [] OTHER -> 280

\* The size in bytes of the payload of frame f.
PayloadSize(f) ==
    CASE f.resp = TYPE_PLIST -> PlistSize(f.MessageType)
      [] f.resp = TYPE_CONNECT -> SIZE_CONNECT
      [] f.resp = TYPE_LISTEN -> SIZE_LISTEN
      [] f.resp = TYPE_RESULT -> SIZE_RESULT
      [] f.resp = TYPE_DEVICE_ADD -> SIZE_DEVICE_ADD
      [] f.resp = TYPE_DEVICE_REMOVE -> SIZE_DEVICE_REMOVE

\* A sender that leaves the length field out of the length.
declared_length_short(n) == 12 + n

\* sendpacket: length = 16 + len(payload_bytes)
declared_length(n) == 16 + n

\* getpacket: recv(4), then recv(dlen - 4): the bytes taken from the stream
\* for a frame whose length field is dlen.
recv_frame(dlen) == 4 + (dlen - 4)

\* The ports connect() is given.
WirePorts == {255, 8080}

\* The entry of the stream for frame f written for request orig, the payload
\* being n bytes long.
Entry(f, n, orig) ==
    [f |-> f, length |-> declared_length(n), size |-> HeaderSize + n, orig |-> orig]

RequestKinds == {"CONNECT", "LISTEN", "RESULT"}

\* sendpacket returned or raised s for request orig.
Codec_sent(s, orig) ==
    IF s.exc = ""
    THEN /\ wire' = Append(wire, Entry(s.sent, PayloadSize(s.sent), orig))
         /\ nframes' = nframes + 1
         /\ UNCHANGED got
    ELSE /\ got' = [op |-> "sendpacket", entry |-> NoEntry, exc |-> s.exc, ret |-> NoPacket]
         /\ UNCHANGED <<wire, nframes>>

\* proto.sendpacket(req, tag, payload), the payload of a Connect being the one
\* connect() builds and that of the others the empty one.
Codec_sendpacket ==
    /\ cproto # ""
    /\ nframes < MaxFrames
    /\ \E kind \in RequestKinds, tag \in ReplyTags, d \in DevIds, port \in WirePorts :
        Codec_sent(sendpacket(cproto, FALSE, TypeOf(cproto, kind), tag,
                              IF kind = "CONNECT"
                              THEN [DeviceID |-> d, PortNumber |-> port_swapped(port)]
                              ELSE [DeviceID |-> 0, PortNumber |-> 0], "ok"),
                   IF kind = "CONNECT"
                   THEN [by |-> "sendpacket", req |-> TypeOf(cproto, kind), tag |-> tag,
                         DeviceID |-> d, PortNumber |-> port_swapped(port), port |-> port]
                   ELSE [by |-> "sendpacket", req |-> TypeOf(cproto, kind), tag |-> tag,
                         DeviceID |-> 0, PortNumber |-> 0, port |-> 0])
    /\ UNCHANGED <<cproto, rpos, sizes, muxvars, relayvars, mainvars, servevars>>

\* The daemon writes a frame, its length field being the size of the frame.
Codec_daemon ==
    /\ cproto # ""
    /\ nframes < MaxFrames
    /\ \E f \in Frames :
        wire' = Append(wire, [f |-> f, length |-> HeaderSize + PayloadSize(f),
                              size |-> HeaderSize + PayloadSize(f), orig |-> NoRequest])
    /\ nframes' = nframes + 1
    /\ UNCHANGED <<cproto, rpos, sizes, got, muxvars, relayvars, mainvars, servevars>>

\* The reader has been through the first frame of the stream in call op,
\* which returned or raised r.
Codec_read(op, r) ==
    /\ wire' = Tail(wire)
    /\ rpos' = rpos + recv_frame(Head(wire).length)
    /\ sizes' = Append(sizes, Head(wire).size)
    /\ got' = [op |-> op, entry |-> Head(wire), exc |-> r.exc,
               ret |-> IF op = "getpacket" THEN r.ret ELSE NoPacket]

\* proto.getpacket() with a frame in the stream.
Codec_getpacket ==
    /\ cproto # ""
    /\ wire # <<>>
    /\ Codec_read("getpacket", getpacket(cproto, FALSE, [io |-> "ok", f |-> Head(wire).f]))
    /\ UNCHANGED <<cproto, nframes, muxvars, relayvars, mainvars, servevars>>

\* MuxConnection.process(timeout) on the stream: select() reports it
\* readable when it holds a frame and times out when it holds none.
Codec_process ==
    /\ cproto # ""
    /\ IF wire # <<>>
       THEN Codec_read("process", process(cproto, FALSE, <<>>, "readable",
                                          [io |-> "ok", f |-> Head(wire).f]))
       ELSE /\ got' = [op |-> "process", entry |-> NoEntry, exc |-> "", ret |-> NoPacket]
            /\ UNCHANGED <<wire, rpos, sizes>>
    /\ UNCHANGED <<cproto, nframes, muxvars, relayvars, mainvars, servevars>>

\* A protocol object of either class on an empty stream.
CodecInit ==
    /\ MuxInit /\ RelayInit /\ MainIdle /\ ServeInit
    /\ cproto \in {"BinaryProtocol", "PlistProtocol"}
    /\ wire = <<>>
    /\ nframes = 0
    /\ rpos = 0
    /\ sizes = <<>>
    /\ got = NoGot

CodecNext == Codec_sendpacket \/ Codec_daemon \/ Codec_getpacket \/ Codec_process

\* One protocol object, the frames written to its stream and its reads.
CodecSpec == CodecInit /\ [][CodecNext]_vars

\* ============================================================== claims
\* A frame that is a Result in the terms of protocol class p.
IsResult(p, f) ==
    IF p = "PlistProtocol"
    THEN f.version = PlistVERSION /\ f.resp = TYPE_PLIST /\ f.MessageType = "Result"
    ELSE f.version = BinaryVERSION /\ f.resp = TYPE_RESULT /\ f.MessageType = ""

\* A frame that is a DeviceRemove in the terms of protocol class p.
IsRemove(p, f) ==
    IF p = "PlistProtocol"
    THEN f.version = PlistVERSION /\ f.resp = TYPE_PLIST /\ f.MessageType = "Detached"
    ELSE f.version = BinaryVERSION /\ f.resp = TYPE_DEVICE_REMOVE /\ f.MessageType = ""

Exchanges == {"listen", "connect"}

\* C1: on every connection the tags taken by successive _exchange calls are
\* strictly increasing and start at 1, whatever other connections have done
\* and whether or not the exchanges succeeded; a request that is written
\* carries the tag taken.
C1_TagsIncreaseFromOne ==
    /\ \A c \in ConnIds :
        /\ Len(tags[c]) > 0 => tags[c][1] = 1
        /\ \A i \in 1..(Len(tags[c]) - 1) : tags[c][i] < tags[c][i + 1]
    /\ last.op \in Exchanges =>
        /\ last.mytag = tags[last.conn][Len(tags[last.conn])]
        /\ last.sent # NoFrame => last.sent.tag = last.mytag

\* Of two connections one has made two requests, and the last one failed.
C1_Witness ==
    /\ last.op \in Exchanges /\ last.exc # ""
    /\ \E c, b \in ConnIds : c # b /\ Len(tags[c]) >= 2 /\ proto[b] # ""

\* C2: when the Result read as the reply to listen or connect carries another
\* tag than the one sent, the call raises the tag-mismatch MuxError whatever
\* the status in the frame, and the connection is not connected.
C2_TagMismatchRejected ==
    (/\ last.op \in Exchanges
     /\ last.read # NoFrame
     /\ IsResult(proto[last.conn], last.read)
     /\ last.read.tag # last.mytag)
    => /\ last.exc = "MuxError"
       /\ last.msg = "Reply tag mismatch"
       /\ last.ret = 0
       /\ ~connected[last.conn]

\* connect read a Result of status 0 under a tag it had not sent.
C2_Witness ==
    /\ last.op = "connect"
    /\ IsResult(proto[last.conn], last.read)
    /\ last.read.tag # last.mytag
    /\ last.read.Number = 0
    /\ last.exc = "MuxError"

\* C3: the registry of a connection never holds two entries of one device id.
C3_NoDuplicateDeviceIds ==
    \A c \in ConnIds : \A i, j \in DOMAIN devices[c] :
        i # j => devices[c][i].devid # devices[c][j].devid

\* The registry devs without the entries of device id.
Without(devs, id) == SelectSeq(devs, LAMBDA dev : dev.devid # id)

\* C4: processing one DeviceRemove(id) leaves the registry as it was without
\* the entries of id, the others in their order, and raises nothing.
C4_RemoveRemovesAll ==
    [][(/\ last'.op = "USBMux.process"
        /\ last' # last
        /\ last'.read # NoFrame
        /\ IsRemove(proto[last'.conn], last'.read))
       => /\ last'.exc = ""
          /\ devices'[last'.conn] = Without(devices[last'.conn], last'.read.DeviceID)]_vars

\* C5: USBMux.__init__ against a daemon that answers in version 1: the Listen
\* sent in version 0 is answered by a version-1 frame, which raises
\* MuxVersionError and leads to the fallback; the Listen on the new
\* PlistProtocol connection then succeeds and the facade is ready with
\* version 1, PlistProtocol, and that connection as its listener.
C5_FallbackToPlist ==
    /\ (/\ last.op = "USBMux"
        /\ last.conn # 0
        /\ proto[last.conn] = "BinaryProtocol"
        /\ last.read # NoFrame
        /\ last.read.version = PlistVERSION)
       => /\ last.sent.version = BinaryVERSION
          /\ last.exc = "MuxVersionError"
          /\ mux.pc = "fallback"
    /\ (/\ last.op = "USBMux"
        /\ last.conn # 0
        /\ proto[last.conn] = "PlistProtocol"
        /\ IsResult("PlistProtocol", last.read)
        /\ last.read.tag = last.mytag
        /\ last.read.Number = 0)
       => /\ \E b \in ConnIds : b # last.conn /\ proto[b] = "BinaryProtocol"
          /\ last.sent.version = PlistVERSION
          /\ last.exc = ""
          /\ mux.pc = "ready" /\ mux.exc = ""
          /\ mux.version = PlistVERSION
          /\ mux.protoclass = "PlistProtocol"
          /\ mux.listener = last.conn

\* The facade has just become ready through the fallback.
C5_Witness ==
    /\ last.op = "USBMux"
    /\ mux.pc = "ready"
    /\ mux.version = PlistVERSION
    /\ proto[mux.listener] = "PlistProtocol"

\* C6: USBMux.__init__ never fails with MuxVersionError: when both attempts
\* meet a version mismatch it fails with another error.
C6_VersionErrorNotSurfaced ==
    mux.pc = "failed" => mux.exc # "MuxVersionError"

\* C7: a connected connection stays connected, and listen, connect, process,
\* sendpacket and getpacket on it raise without writing to or reading from
\* the socket.
C7_StreamingIsTerminal ==
    [][\A c \in ConnIds : connected[c] =>
        /\ connected'[c]
        /\ (ncalls' # ncalls /\ last'.conn = c /\ last'.op \in {"listen", "connect", "process"})
           => (last'.exc # "" /\ last'.sent = NoFrame /\ last'.read = NoFrame)
        /\ \A inp \in Inputs :
            /\ sendpacket(proto[c], connected[c], TypeOf(proto[c], "LISTEN"), pkttag[c],
                          [DeviceID |-> 0, PortNumber |-> 0], inp.io).exc # ""
            /\ sendpacket(proto[c], connected[c], TypeOf(proto[c], "LISTEN"), pkttag[c],
                          [DeviceID |-> 0, PortNumber |-> 0], inp.io).sent = NoFrame
            /\ getpacket(proto[c], connected[c], inp).exc # ""
            /\ getpacket(proto[c], connected[c], inp).read = NoFrame]_vars

\* listen was called on a connected connection.
C7_Witness ==
    /\ last.op = "listen"
    /\ last.was
    /\ connected[last.conn]
    /\ last.exc = "MuxError"

\* C8: a connection becomes connected exactly in a connect call that read a
\* Result of its own tag and status 0; on a Result of its own tag and another
\* status connect raises the MuxError carrying that status and the
\* connection is not connected.
C8_ConnectedIffStatusZero ==
    [][\A c \in ConnIds :
        /\ (~connected[c] /\ connected'[c])
           <=> (/\ ncalls' # ncalls /\ last'.conn = c /\ last'.op = "connect"
                /\ last'.read # NoFrame
                /\ IsResult(proto[c], last'.read)
                /\ last'.read.tag = last'.mytag
                /\ last'.read.Number = 0)
        /\ (/\ ncalls' # ncalls /\ last'.conn = c /\ last'.op = "connect"
            /\ last'.read # NoFrame
            /\ IsResult(proto[c], last'.read)
            /\ last'.read.tag = last'.mytag
            /\ last'.read.Number # 0)
           => /\ last'.exc = "MuxError"
              /\ last'.msg = "Connect failed"
              /\ last'.ret = last'.read.Number
              /\ ~connected'[c]]_vars

\* connect read a Result of its own tag and a non-zero status.
C8_Witness ==
    /\ last.op = "connect"
    /\ IsResult(proto[last.conn], last.read)
    /\ last.read.tag = last.mytag
    /\ last.read.Number # 0
    /\ last.msg = "Connect failed"
    /\ ~connected[last.conn]

IsPrefix(p, q) == Len(p) <= Len(q) /\ p = SubSeq(q, 1, Len(p))

\* No socket of the relayed connection is closed, at end of stream or failed.
Undisturbed == \A s \in Socks : ~sclosed[s] /\ ~eof[s] /\ ~err[s]

\* C9: in each direction the bytes written to the destination are always a
\* prefix of the bytes the source has sent, and the n-th byte the source has
\* sent is eventually written unless a socket closes or fails.
C9_ForwardedInOrder ==
    /\ [](\A d \in Dirs : IsPrefix(written[Dst(d)], sentby[Src(d)]))
    /\ \A d \in Dirs : \A n \in 1..MaxBytes :
        (Len(sentby[Src(d)]) >= n) ~> (Len(written[Dst(d)]) >= n \/ ~Undisturbed)

\* Two different bytes of the client have reached the device, in two chunks
\* or one, nothing being closed.
C9_Witness ==
    /\ Undisturbed
    /\ written["device_sock"] = <<0, 1>>
    /\ sentby["client_sock"] = <<0, 1>>

\* C10: a forward thread that has ended has closed both sockets, and once
\* one of them has ended the other ends too, whatever the order in which
\* the threads start and run.
C10_BothClosedBothEnd ==
    /\ [](\A d \in Dirs : fpc[d] = "done" =>
            sclosed["client_sock"] /\ sclosed["device_sock"])
    /\ (\E d \in Dirs : fpc[d] = "done") ~> (\A d \in Dirs : fpc[d] = "done")

\* forward(client_sock, device_sock) has ended before the other thread was
\* started.
C10_Witness ==
    /\ fpc["c2d"] = "done"
    /\ fpc["d2c"] = "idle"
    /\ hpc = "start2"

\* A statement of handle_connection's try block fails in this step: USBMux()
\* fails in construction or negotiation, process() raises, the registry is
\* empty after the wait, or connect() raises (the daemon rejecting the
\* Connect with a non-zero status included).
SetupFails ==
    \/ mux.pc # "failed" /\ mux'.pc = "failed"
    \/ hpc = "process" /\ last' # last /\ last'.exc # ""
    \/ hpc = "device" /\ hpc' # hpc /\ devices[mux.listener] = <<>>
    \/ hpc = "connect" /\ last' # last /\ last'.exc # ""

\* C11: when a step of the stream setup of an accepted connection fails, the
\* handler enters its except block, whose one effect is to close client_sock
\* and return: no exception leaves handle_connection, and from the failure
\* on no forward thread is ever started.
C11_SetupFailureClosesClient ==
    [][/\ hpc' # "raised"
       /\ SetupFails => hpc' = "except"
       /\ hpc = "except" /\ hpc' # hpc => hpc' = "returned" /\ sclosed'["client_sock"]
       /\ hpc = "returned" => hpc' = "returned" /\ sclosed'["client_sock"]
       /\ hpc' \in {"except", "returned"} => \A d \in Dirs : fpc'[d] = "idle"]_vars

\* The daemon rejected the Connect with a non-zero status; the handler
\* has closed client_sock and returned.
C11_Witness ==
    /\ hpc = "returned"
    /\ last.op = "USBMux.connect"
    /\ last.msg = "Connect failed"
    /\ last.read.Number # 0
    /\ sclosed["client_sock"]
    /\ \A d \in Dirs : fpc[d] = "idle"

\* What the threads of accepted connection k own: its handler's position,
\* its sockets, its forward threads and the bytes they have written.
StateOf(k) ==
    <<handler[k], [s \in Socks |-> sockclosed[<<k, s>>]],
      [d \in Dirs |-> task[<<k, d>>]], [d \in Dirs |-> relayed[<<k, d>>]]>>

\* C12: a step of the threads of one accepted connection - its setup failing,
\* an exception leaving a statement, a forward thread ending and closing the
\* sockets - changes nothing of another accepted connection, whether the same
\* relay accepted both or not: its sockets stay open, its forward threads
\* stand where they stood, the bytes it has relayed are the same; and every
\* accept loop goes on accepting.
C12_ConnectionsIsolated ==
    [][/\ \A a \in Accepts : \A b \in Accepts \ {a} :
            StateOf(a)' # StateOf(a) => StateOf(b)' = StateOf(b)
       /\ \A r \in Relays : server'[r] = "accepting"]_vars

\* The setup of A has failed and A's handler has returned while B, accepted
\* by the same relay, is forwarding: both its threads run, its sockets are
\* open and two bytes have gone through.
C12_Witness ==
    /\ handler["A"] = "returned"
    /\ sockclosed[<<"A", "client_sock">>]
    /\ relay_of["A"] = relay_of["B"]
    /\ \A d \in Dirs : task[<<"B", d>>] = "recv"
    /\ \A s \in Socks : ~sockclosed[<<"B", s>>]
    /\ relayed[<<"B", "c2d">>] = <<0, 1>>

\* C13: the Connect request of a relayed stream names the device the policy
\* flag selects among the attached devices, the first when the flag is set
\* and the last otherwise; the handler's registry holding the device the
\* daemon reports first.
C13_DeviceChosenByFlag ==
    (/\ last.op = "USBMux.connect"
     /\ last.sent # NoFrame
     /\ devices[mux.listener][1].devid = attached[1])
    => last.sent.DeviceID = main_device(first, attached)

\* C14: a frame that sendpacket wrote for a Connect or Listen request is
\* decoded by getpacket of the same protocol class without an exception, and
\* the kind, the tag and the payload returned are those of the request.
C14_EncodeDecodeRoundTrip ==
    (/\ got.op = "getpacket"
     /\ got.entry.orig.by = "sendpacket"
     /\ got.entry.orig.req \in {TypeOf(cproto, "CONNECT"), TypeOf(cproto, "LISTEN")})
    => /\ got.exc = ""
       /\ got.ret.resp = got.entry.orig.req
       /\ got.ret.tag = got.entry.orig.tag
       /\ got.ret.data.DeviceID = got.entry.orig.DeviceID
       /\ got.ret.data.PortNumber = got.entry.orig.PortNumber

\* The number whose high byte is the low byte of P and whose low byte is
\* the high byte of P.
BytesExchanged(P) == (P % 256) * 256 + (P \div 256)

\* Every 16-bit port is swapped into a 16-bit number, and back by a second swap.
SwapOnAllPorts ==
    \A P \in 0..65535 :
        /\ port_swapped(P) = BytesExchanged(P)
        /\ port_swapped(P) \in 0..65535
        /\ port_swapped(port_swapped(P)) = P

\* C15: the PortNumber of every Connect frame written is the port given to
\* connect() with its two bytes exchanged, 0x901F for 8080; it is in 0..65535
\* and swapping it again gives the port back; and so for all ports of 0..65535.
C15_PortByteSwapped ==
    /\ \A i \in DOMAIN wire :
        (wire[i].orig.by = "sendpacket" /\ wire[i].orig.req = TypeOf(cproto, "CONNECT")) =>
            /\ wire[i].f.PortNumber = BytesExchanged(wire[i].orig.port)
            /\ wire[i].orig.port = 8080 => wire[i].f.PortNumber = 36895
            /\ wire[i].f.PortNumber \in 0..65535
            /\ port_swapped(wire[i].f.PortNumber) = wire[i].orig.port
    /\ SwapOnAllPorts

\* A Connect for port 8080 is on the wire with 0x901F as its PortNumber.
C15_Witness ==
    \E i \in DOMAIN wire :
        /\ wire[i].orig.by = "sendpacket"
        /\ wire[i].orig.req = TypeOf(cproto, "CONNECT")
        /\ wire[i].orig.port = 8080
        /\ wire[i].f.PortNumber = 36895

\* C16: USBMux.__init__ makes its first Listen attempt on a BinaryProtocol
\* connection and a second one, on a PlistProtocol connection, exactly when
\* the first met a frame of another version; any other failure of the first
\* attempt and every failure of the second is the failure of the
\* constructor, with the exception of that attempt; after the second attempt,
\* or a first attempt that did not meet another version, there is no further
\* attempt.
C16_BinaryThenPlistOnly ==
    [][/\ (mux.pc = "new" /\ mux' # mux) =>
            /\ Created = {}
            /\ last'.conn # 0 => proto'[last'.conn] = "BinaryProtocol"
            /\ mux'.pc = "fallback" <=> last'.exc = "MuxVersionError"
            /\ mux'.pc = "fallback" <=>
                   (last'.read # NoFrame /\ last'.read.version # BinaryVERSION)
            /\ mux'.pc = "ready" <=> last'.exc = ""
            /\ last'.exc \notin {"", "MuxVersionError"} =>
                   mux'.pc = "failed" /\ mux'.exc = last'.exc /\ mux'.msg = last'.msg
       /\ (mux.pc = "fallback" /\ mux' # mux) =>
            /\ Cardinality(Created) = 1
            /\ last.exc = "MuxVersionError"
            /\ last'.conn # 0 => proto'[last'.conn] = "PlistProtocol"
            /\ mux'.pc = "ready" <=> last'.exc = ""
            /\ last'.exc # "" =>
                   mux'.pc = "failed" /\ mux'.exc = last'.exc /\ mux'.msg = last'.msg
       /\ mux.pc \in {"ready", "failed"} =>
            /\ mux'.pc = mux.pc
            /\ last' # last => last'.op # "USBMux"
       /\ mux'.pc = "failed" => Cardinality({c \in ConnIds : proto'[c] # ""}) <= 2]_vars

\* The first attempt read a Result under another tag than the one sent: the
\* constructor has failed with that error and only the BinaryProtocol
\* connection exists.
C16_Witness ==
    /\ mux.pc = "failed"
    /\ mux.msg = "Reply tag mismatch"
    /\ last.op = "USBMux"
    /\ Created = {last.conn}
    /\ proto[last.conn] = "BinaryProtocol"

\* C17: when listen or connect reads, as the reply to its request, a frame
\* that is not a Result, the call raises a MuxError on that frame (not a
\* tag mismatch), the registry of the connection is what it was, and the
\* connection is not connected.
C17_NonResultReplyRejected ==
    [][(/\ ncalls' # ncalls
        /\ last'.op \in Exchanges
        /\ last'.read # NoFrame
        /\ ~IsResult(proto[last'.conn], last'.read))
       => /\ last'.exc \in {"MuxError", "MuxVersionError"}
          /\ last'.msg \in {"Invalid packet type received", "Invalid incoming request type",
                            "Received non-plist type", "Version mismatch"}
          /\ devices'[last'.conn] = devices[last'.conn]
          /\ ~connected'[last'.conn]]_vars

\* listen read a DeviceAttach where it expected its Result.
C17_Witness ==
    /\ last.op = "listen"
    /\ proto[last.conn] = "BinaryProtocol"
    /\ last.read.version = BinaryVERSION
    /\ last.read.resp = TYPE_DEVICE_ADD
    /\ last.exc = "MuxError"
    /\ last.msg = "Invalid packet type received"
    /\ devices[last.conn] = <<>>
    /\ ~connected[last.conn]

RECURSIVE SumSeq(_)
SumSeq(q) == IF q = <<>> THEN 0 ELSE Head(q) + SumSeq(Tail(q))

\* C18: every frame sendpacket writes carries as its length 16 plus the
\* number of bytes of its payload; the reader takes from the stream exactly
\* the bytes of each frame it goes through, whether the frame is then decoded
\* or makes the call raise, so that it always stands at the start of a frame;
\* and one process() call goes through at most one frame.
C18_LengthAndFrameBoundary ==
    [][/\ \A i \in DOMAIN wire' :
            wire'[i].orig.by = "sendpacket" =>
                wire'[i].length = 16 + (wire'[i].size - HeaderSize)
       /\ rpos' = SumSeq(sizes')
       /\ Len(sizes') > Len(sizes) =>
            /\ rpos' - rpos = got'.entry.length
            /\ rpos' - rpos = 4 + (got'.entry.length - 4)
            /\ got'.entry = Head(wire)
       /\ got'.op = "process" =>
            /\ Len(sizes') <= Len(sizes) + 1
            /\ Len(wire') >= Len(wire) - 1]_vars

\* getpacket raised on the first frame of the stream and the reader stands at
\* the start of the second, a frame sendpacket wrote.
C18_Witness ==
    /\ got.op = "getpacket"
    /\ got.exc # ""
    /\ Len(sizes) = 1
    /\ rpos = got.entry.size
    /\ wire # <<>>
    /\ wire[1].orig.by = "sendpacket"

\* What connection c is: its protocol class, tag counter, registry, state,
\* socket and the tags it has used.
ConnState(c) == <<proto[c], pkttag[c], devices[c], connected[c], sockopen[c], tags[c]>>

\* C19: USBMux.connect leaves the facade and every existing connection, the
\* listener among them, as they were: the listener is not connected and its
\* tag counter and registry are unchanged. The Connect is made on a connection
\* that did not exist before, of the protocol class negotiated at
\* construction, as that connection's first request.
C19_ConnectOnFreshConnection ==
    [][(last'.op = "USBMux.connect" /\ (last' # last \/ proto' # proto)) =>
        /\ mux.pc = "ready" /\ mux' = mux
        /\ ~connected'[mux.listener]
        /\ \A b \in Created : ConnState(b)' = ConnState(b)
        /\ last'.conn # 0 =>
            /\ last'.conn \notin Created
            /\ proto'[last'.conn] = mux.protoclass
            /\ tags'[last'.conn] = <<FirstTag>>
            /\ connected'[last'.conn] <=> last'.exc = ""
            /\ last'.sent # NoFrame =>
                /\ last'.sent.version = mux.version
                /\ last'.sent.tag = FirstTag
                /\ last'.sent.resp = (IF mux.protoclass = "PlistProtocol"
                                      THEN TYPE_PLIST ELSE TYPE_CONNECT)]_vars

\* A stream has been opened through a facade that fell back to
\* PlistProtocol and tracks a device: the new connection is connected, the
\* listener is not.
C19_Witness ==
    /\ last.op = "USBMux.connect"
    /\ last.exc = ""
    /\ connected[last.conn]
    /\ mux.protoclass = "PlistProtocol"
    /\ proto[last.conn] = "PlistProtocol"
    /\ devices[mux.listener] # <<>>
    /\ ~connected[mux.listener]

\* The accepted connection is over: its setup has failed and the handler
\* has returned, or both its forward threads have ended.
Finished == hpc = "returned" \/ \A d \in Dirs : fpc[d] = "done"

\* C20: when the accepted connection is over, the socket of every
\* MuxConnection opened for it is closed: that of the facade's listener, that
\* of the connection the fallback left behind, and that of the connection of
\* the stream (device_sock when connect() succeeded).
C20_DaemonSocketsClosed ==
    Finished =>
        \A c \in Created :
            IF connected[c] THEN sclosed["device_sock"] ELSE ~sockopen[c]

====
